---------------------------- MODULE Spec2Model ----------------------------
(***************************************************************************)
(* A model of collie: the bit index (src/src/bitindex/mod.rs), the column  *)
(* representations (src/src/column.rs) and the stack VM (src/src/main.rs). *)
(*                                                                         *)
(* A u64 word is the set of its set bit positions (a subset of 0..63), so  *)
(* the bit tricks of the source keep their 64-bit width.  A String is the  *)
(* sequence of its bytes.  An f64 is modelled by an integer: the numbers   *)
(* used are small whole numbers, on which f64 equality is integer          *)
(* equality.  A Rust panic is the outcome kind "Panic".                    *)
(***************************************************************************)
EXTENDS Integers, Sequences, FiniteSets

VARIABLES
    overflowChecks, \* build profile: TRUE = overflow checks on (dev), FALSE = release
    columns,        \* VM.columns: the table, one Rc<Column> per slot
    code,           \* VM.code
    ip,             \* VM.ip
    stack,          \* VM.stack
    status,         \* where the caller of run is: "idle", "running", or how run ended
    col,            \* column session: outcome of the last select (a column or a panic)
    orig,           \* column session: the column the session started from
    mask,           \* column session: the BitIndex being built / applied
    maskLen,        \* column session: the length the BitIndex was created for
    members,        \* column session: the positions asked to be members of mask
    inverted,       \* column session: mask is the complement of an index that was built
    applied         \* column session: the member sets of the masks selected with so far

vars == <<overflowChecks, columns, code, ip, stack, status,
          col, orig, mask, maskLen, members, inverted, applied>>

vmVars == <<columns, code, ip, stack, status>>
sessionVars == <<col, orig, mask, maskLen, members, inverted, applied>>

-----------------------------------------------------------------------------
(* Outcomes of a call: a value, a returned VMError, or a panic. *)

Ok(v) == [kind |-> "Ok", val |-> v]
Err(e) == [kind |-> "Err", err |-> e]
Panic == [kind |-> "Panic"]

IsOk(r) == r.kind = "Ok"

-----------------------------------------------------------------------------
(* Words of 64 bits *)

WordBits == 64

AllBits == 0 .. (WordBits - 1)

Min(S) == CHOOSE x \in S : \A y \in S : x <= y

\* !x on a u64
BitNot(w) == AllBits \ w

\* x + 1 on 64 bits, wrapping: the trailing ones become zeros, the lowest zero a one
AddOne(w) ==
    IF w = AllBits THEN {}
    ELSE LET z == Min(AllBits \ w) IN (w \ (0 .. (z - 1))) \cup {z}

\* two's complement negation of the word's bit pattern
TwosNeg(w) == AddOne(BitNot(w))

\* -(block as i64): negating i64::MIN overflows; with overflow checks the
\* program panics, without them the result wraps
NegI64(w, oc) ==
    IF w = {WordBits - 1} /\ oc THEN Panic ELSE Ok(TwosNeg(w))

\* a ^ b on words
BitXor(a, b) == (a \ b) \cup (b \ a)

\* u64::trailing_zeros of a non-zero word
TrailingZeros(w) == Min(w)

-----------------------------------------------------------------------------
(* BitIndex *)

\* BitIndex::for_col_len
ForColLen(len) == [i \in 1 .. ((len \div WordBits) + 1) |-> {}]

\* BitIndex::set: data[block] panics when block is past the last word
BitSet(data, idx) ==
    LET block == idx \div WordBits
        bit == idx % WordBits
    IN  IF block >= Len(data) THEN Panic
        ELSE Ok([data EXCEPT ![block + 1] = @ \cup {bit}])

\* BitIndex::inverted
Inverted(data) == [i \in DOMAIN data |-> BitNot(data[i])]

\* the positions whose bit is set: bit i of word b is position b * 64 + i
BitMembers(data) ==
    UNION {{(b - 1) * WordBits + i : i \in data[b]} : b \in DOMAIN data}

\* One pass of the body of the inner while loop of select / for_each.  The
\* loop state is the block still to scan and the positions handed to the
\* loop body so far; the body panics at a position >= limit (an index past
\* the end of the Vec it reads), and the negation may panic.
LoopBody(st, blockIdx, oc, limit) ==
    IF ~IsOk(NegI64(st.block, oc)) THEN [st EXCEPT !.kind = "Panic"]
    ELSE IF blockIdx * WordBits + TrailingZeros(st.block) >= limit
         THEN [st EXCEPT !.kind = "Panic"]
    ELSE [kind |-> "Ok",
          block |-> BitXor(st.block, st.block \cap NegI64(st.block, oc).val),
          seen |-> Append(st.seen, blockIdx * WordBits + TrailingZeros(st.block))]

\* while block != 0 { ... }, for at most n passes
RECURSIVE WhileBlock(_, _, _, _, _)
WhileBlock(st, blockIdx, oc, limit, n) ==
    IF n = 0 \/ st.kind # "Ok" \/ st.block = {} THEN st
    ELSE WhileBlock(LoopBody(st, blockIdx, oc, limit), blockIdx, oc, limit, n - 1)

\* The inner while loop on one block, lowest set bit first.  A word has
\* WordBits bits and every pass clears one, so the loop ends within WordBits
\* passes; they are evaluated a quarter at a time.
ScanBlock(block, blockIdx, oc, limit, seen) ==
    LET quarter == WordBits \div 4
        q0 == [kind |-> "Ok", block |-> block, seen |-> seen]
        q1 == WhileBlock(q0, blockIdx, oc, limit, quarter)
        q2 == WhileBlock(q1, blockIdx, oc, limit, quarter)
        q3 == WhileBlock(q2, blockIdx, oc, limit, quarter)
        q4 == WhileBlock(q3, blockIdx, oc, limit, quarter)
    IN  IF q4.kind = "Ok" THEN Ok(q4.seen) ELSE Panic

\* The outer for loop of select / for_each: blocks in ascending order
RECURSIVE ScanBlocks(_, _, _, _, _)
ScanBlocks(data, blockIdx, oc, limit, seen) ==
    IF blockIdx >= Len(data) THEN Ok(seen)
    ELSE IF ~IsOk(ScanBlock(data[blockIdx + 1], blockIdx, oc, limit, seen)) THEN Panic
    ELSE ScanBlocks(data, blockIdx + 1, oc, limit,
                    ScanBlock(data[blockIdx + 1], blockIdx, oc, limit, seen).val)

\* BitIndex::for_each with a callback that indexes a Vec of limit elements by
\* the position: the positions handed to the callback, in call order
ForEach(data, oc, limit) == ScanBlocks(data, 0, oc, limit, <<>>)

\* BitIndex::select: col[idx] panics when idx is past the end of col
BitSelect(data, v, oc) ==
    LET ms == ScanBlocks(data, 0, oc, Len(v), <<>>) IN
    IF ~IsOk(ms) THEN Panic
    ELSE Ok([i \in DOMAIN ms.val |-> v[ms.val[i] + 1]])

-----------------------------------------------------------------------------
(* Scalars and columns *)

\* enum Scalar: the payload of the variant named by tag is in the field of that
\* variant (b, n, s or e); the other fields are unused
ScalarBool(x) == [tag |-> "Bool", b |-> x, n |-> 0, s |-> <<>>, e |-> 0]
ScalarNum(x) == [tag |-> "Num", b |-> FALSE, n |-> x, s |-> <<>>, e |-> 0]
ScalarStr(bytes) == [tag |-> "Str", b |-> FALSE, n |-> 0, s |-> bytes, e |-> 0]
ScalarEntity(x) == [tag |-> "Entity", b |-> FALSE, n |-> 0, s |-> <<>>, e |-> x]

BoolColumn(data) == [tag |-> "Bool", data |-> data]
NumColumn(data) == [tag |-> "Num", data |-> data]
StrColumn(data) == [tag |-> "Str", data |-> data]
EntityColumn(data) == [tag |-> "Entity", data |-> data]
InlineStrColumn(data, offsets) ==
    [tag |-> "InlineStr", data |-> data, offsets |-> offsets]

\* v[from .. to) of a Vec, as a sequence
Slice(v, from, to) == [i \in 1 .. (to - from) |-> v[from + i]]

\* InlineStrColumn::from_strs
RECURSIVE FromStrsLoop(_, _, _)
FromStrsLoop(strs, data, offsets) ==
    IF strs = <<>> THEN InlineStrColumn(data, offsets)
    ELSE LET s == Head(strs) IN
         FromStrsLoop(Tail(strs), data \o s,
                      Append(offsets, offsets[Len(offsets)] + Len(s)))

FromStrs(strs) == FromStrsLoop(strs, <<>>, <<0>>)

\* the fold of positions.set(i) over the matching rows, in row order
RECURSIVE SetAll(_, _, _)
SetAll(positions, hits, i) ==
    IF i > Len(hits) THEN Ok(positions)
    ELSE IF ~hits[i] THEN SetAll(positions, hits, i + 1)
    ELSE LET r == BitSet(positions, i - 1) IN
         IF IsOk(r) THEN SetAll(r.val, hits, i + 1) ELSE Panic

\* _filter_eq_bool
FilterEqBool(v, val) ==
    LET r == SetAll(ForColLen(Len(v)), [i \in DOMAIN v |-> v[i] = val], 1) IN
    IF IsOk(r) THEN Ok(BoolColumn(r.val)) ELSE Panic

\* BoolColumn::filter
BoolFilter(c, val) ==
    IF val.tag = "Bool"
    THEN IF val.b THEN Ok(BoolColumn(c.data)) ELSE Ok(BoolColumn(Inverted(c.data)))
    ELSE Err("TypeError")

\* NumColumn::filter
NumFilter(c, val) ==
    IF val.tag = "Num" THEN FilterEqBool(c.data, val.n) ELSE Err("TypeError")

\* StrColumn::filter
StrFilter(c, val) ==
    IF val.tag = "Str" THEN FilterEqBool(c.data, val.s) ELSE Err("TypeError")

\* EntityColumn::filter
EntityFilter(c, val) ==
    IF val.tag = "Entity" THEN FilterEqBool(c.data, val.e) ELSE Err("TypeError")

\* InlineStrColumn::filter with the row slice taken one offset too far
InlineStrFilterNextRow(c, val) ==
    IF val.tag = "Str"
    THEN LET n == Len(c.offsets) - 2
             hits == [i \in 1 .. n |->
                        val.s = Slice(c.data, c.offsets[i + 1], c.offsets[i + 2])]
             r == SetAll(ForColLen(Len(c.offsets)), hits, 1)
         IN  IF IsOk(r) THEN Ok(BoolColumn(r.val)) ELSE Panic
    ELSE Err("TypeError")

\* InlineStrColumn::filter: the index is created for offsets.len(), and row i
\* is the byte slice data[offsets[i] .. offsets[i+1]]
InlineStrFilter(c, val) ==
    IF val.tag = "Str"
    THEN LET n == Len(c.offsets) - 1
             hits == [i \in 1 .. n |->
                        val.s = Slice(c.data, c.offsets[i], c.offsets[i + 1])]
             r == SetAll(ForColLen(Len(c.offsets)), hits, 1)
         IN  IF IsOk(r) THEN Ok(BoolColumn(r.val)) ELSE Panic
    ELSE Err("TypeError")

\* BoolColumn::select: unimplemented!()
BoolSelect(c, m, oc) == Panic

\* NumColumn::select
NumSelect(c, m, oc) ==
    LET r == BitSelect(m.data, c.data, oc) IN
    IF IsOk(r) THEN Ok(NumColumn(r.val)) ELSE Panic

\* StrColumn::select
StrSelect(c, m, oc) ==
    LET r == BitSelect(m.data, c.data, oc) IN
    IF IsOk(r) THEN Ok(StrColumn(r.val)) ELSE Panic

\* EntityColumn::select
EntitySelect(c, m, oc) ==
    LET r == BitSelect(m.data, c.data, oc) IN
    IF IsOk(r) THEN Ok(EntityColumn(r.val)) ELSE Panic

\* The new offset pushed by the callback of InlineStrColumn::select: it reads
\* the NEW offsets vector at the member's position in the source column
NewOffset(offsets, idx, n) ==
    IF idx >= Len(offsets) THEN Panic ELSE Ok(offsets[idx + 1] + n)

\* The callback of InlineStrColumn::select over the reported positions:
\* offsets[idx] is bounds-checked (self.offsets[idx+1] was, by the scan)
RECURSIVE InlineStrGather(_, _, _, _)
InlineStrGather(c, idxs, data, offsets) ==
    IF idxs = <<>> THEN Ok(InlineStrColumn(data, offsets))
    ELSE LET idx == Head(idxs)
             bytes == Slice(c.data, c.offsets[idx + 1], c.offsets[idx + 2])
             off == NewOffset(offsets, idx, Len(bytes))
         IN  IF ~IsOk(off) THEN Panic
             ELSE InlineStrGather(c, Tail(idxs), data \o bytes,
                                  Append(offsets, off.val))

\* InlineStrColumn::select: the callback reads self.offsets[idx + 1], so it
\* panics at a position >= self.offsets.len() - 1
InlineStrSelect(c, m, oc) ==
    LET ms == ForEach(m.data, oc, Len(c.offsets) - 1) IN
    IF ~IsOk(ms) THEN Panic ELSE InlineStrGather(c, ms.val, <<>>, <<0>>)

\* <Column as ColumnT>::filter
ColumnFilter(c, val) ==
    CASE c.tag = "Bool" -> BoolFilter(c, val)
      [] c.tag = "Num" -> NumFilter(c, val)
      [] c.tag = "Str" -> StrFilter(c, val)
      [] c.tag = "Entity" -> EntityFilter(c, val)
      [] c.tag = "InlineStr" -> InlineStrFilter(c, val)

\* <Column as ColumnT>::select
ColumnSelect(c, m, oc) ==
    CASE c.tag = "Bool" -> BoolSelect(c, m, oc)
      [] c.tag = "Num" -> NumSelect(c, m, oc)
      [] c.tag = "Str" -> StrSelect(c, m, oc)
      [] c.tag = "Entity" -> EntitySelect(c, m, oc)
      [] c.tag = "InlineStr" -> InlineStrSelect(c, m, oc)

\* the number of rows of a column that stores its rows (a BoolColumn stores
\* words only, and no length)
Rows(c) == IF c.tag = "InlineStr" THEN Len(c.offsets) - 1 ELSE Len(c.data)

-----------------------------------------------------------------------------
(* The strings, tables and programs the model runs *)

alice == <<97, 108, 105, 99, 101>>
bob == <<98, 111, 98>>
carol == <<99, 97, 114, 111, 108>>
dave == <<100, 97, 118, 101>>
f == <<102>>
m == <<109>>
a == <<97>>
bb == <<98, 98>>
c == <<99>>

\* the table of test_vm
Persons ==
    << StrColumn(<<alice, bob, carol, dave>>),
       NumColumn(<<18, 42, 34, 20>>),
       FromStrs(<<f, m, f, m>>) >>

\* a table that also holds a Bool column (members 0 and 1) and columns of
\* other lengths
Mixed ==
    << BoolColumn(<<{0, 1}>>),
       NumColumn(<<18, 42>>),
       FromStrs(<<a, bb, c>>) >>

Tables == <<Persons, Mixed>>

\* enum Op: lit is the operand of Lit, arg the operand of Col and Select; an
\* opcode without that operand leaves the field unused
OpLit(s) == [op |-> "Lit", lit |-> s, arg |-> 0]
OpCol(idx) == [op |-> "Col", lit |-> ScalarBool(FALSE), arg |-> idx]
OpSelect(n) == [op |-> "Select", lit |-> ScalarBool(FALSE), arg |-> n]
OpFilterEq == [op |-> "FilterEq", lit |-> ScalarBool(FALSE), arg |-> 0]
OpAddVs == [op |-> "AddVs", lit |-> ScalarBool(FALSE), arg |-> 0]
OpDivVs == [op |-> "DivVs", lit |-> ScalarBool(FALSE), arg |-> 0]

\* the program of test_vm
TestVmCode ==
    <<OpCol(2), OpLit(ScalarStr(f)), OpFilterEq, OpCol(0), OpSelect(1)>>

\* programs of the shape [Col(c), Lit(v), FilterEq, Col(c), Lit(v), FilterEq, Select(1)]
TwoMasks(ci, v) ==
    <<OpCol(ci), OpLit(v), OpFilterEq, OpCol(ci), OpLit(v), OpFilterEq, OpSelect(1)>>

\* longer programs: a filter followed by selects, over every pair of slots
Scenarios ==
    {TestVmCode}
    \cup {TwoMasks(2, ScalarStr(f)), TwoMasks(1, ScalarNum(18))}
    \cup {TestVmCode \o <<OpCol(j), OpSelect(1)>> : j \in 0 .. 2}
    \cup {<<OpCol(i), OpCol(j), OpSelect(1)>> : i \in 0 .. 2, j \in 0 .. 2}
    \cup {<<OpCol(i), OpLit(s), OpFilterEq, OpCol(j), OpSelect(1)>> :
            i \in 0 .. 2, j \in 0 .. 2,
            s \in {ScalarStr(f), ScalarStr(bb), ScalarNum(18), ScalarBool(FALSE),
                   ScalarBool(TRUE)}}

\* the instructions short programs are made of
GenOps ==
    {OpLit(ScalarStr(f)), OpLit(ScalarBool(FALSE)), OpCol(0), OpCol(1), OpCol(2),
     OpCol(99), OpFilterEq, OpSelect(1), OpAddVs, OpDivVs}

MaxGenLen == 2

SeqsUpTo(S, n) == UNION {[1 .. k -> S] : k \in 0 .. n}

Programs == Scenarios \cup SeqsUpTo(GenOps, MaxGenLen)

-----------------------------------------------------------------------------
(* The VM *)

ScalarVal(s) == [tag |-> "Scalar", s |-> s]

\* Value::ColumnRef(Rc<Column>): rc names the allocation, a table slot's or one
\* made by Rc::new for the stack
ColumnRef(rc, column) == [tag |-> "ColumnRef", rc |-> rc, col |-> column]

TableRc(idx) == [table |-> TRUE, slot |-> idx]
NewRc == [table |-> FALSE, slot |-> 0]

\* Rc::strong_count: the table's own reference plus the live clones in
\* holders; an Rc::new allocation is never cloned
StrongCount(rc, holders) ==
    IF rc.table
    THEN 1 + Cardinality({i \in DOMAIN holders :
                            holders[i].tag = "ColumnRef" /\ holders[i].rc = rc})
    ELSE 1

Pop(stk) == SubSeq(stk, 1, Len(stk) - 1)
Top(stk) == stk[Len(stk)]

\* VM::pop_scalar: stack.pop() removes the top whatever it is
PopScalar(stk) ==
    IF stk = <<>> THEN [res |-> Err("TypeError"), stack |-> stk]
    ELSE IF Top(stk).tag = "Scalar"
         THEN [res |-> Ok(Top(stk).s), stack |-> Pop(stk)]
         ELSE [res |-> Err("TypeError"), stack |-> Pop(stk)]

\* VM::pop_column
PopColumn(stk) ==
    IF stk = <<>> THEN [res |-> Err("TypeError"), stack |-> stk]
    ELSE IF Top(stk).tag = "ColumnRef"
         THEN [res |-> Ok(Top(stk)), stack |-> Pop(stk)]
         ELSE [res |-> Err("TypeError"), stack |-> Pop(stk)]

\* VM::expect_col_bool: Rc::try_unwrap(v).unwrap() panics unless v is the only
\* reference; holders are the references alive at the call, v among them
ExpectColBool(v, holders) ==
    IF StrongCount(v.rc, holders) # 1 THEN Panic
    ELSE IF v.col.tag = "Bool" THEN Ok(v.col)
    ELSE Err("TypeError")

\* how a call that did not return a value ends run
Ending(r) == IF r.kind = "Err" THEN r.err ELSE "Panic"

Fetching == status = "running" /\ ip < Len(code)
Fetched == code[ip + 1]

\* VM::new, then the call of run on the new VM: self.code = code
Run(prog) ==
    /\ status = "idle"
    /\ code' = prog
    /\ status' = "running"
    /\ UNCHANGED <<overflowChecks, columns, ip, stack, sessionVars>>

\* Op::Lit
StepLit ==
    /\ Fetching
    /\ Fetched.op = "Lit"
    /\ ip' = ip + 1
    /\ stack' = Append(stack, ScalarVal(Fetched.lit))
    /\ UNCHANGED <<overflowChecks, columns, code, status, sessionVars>>

\* Op::Col: self.columns[*idx] panics when idx is not a slot of the table
StepCol ==
    /\ Fetching
    /\ Fetched.op = "Col"
    /\ ip' = ip + 1
    /\ IF Fetched.arg >= Len(columns)
       THEN status' = "Panic" /\ stack' = stack
       ELSE /\ stack' = Append(stack, ColumnRef(TableRc(Fetched.arg),
                                                columns[Fetched.arg + 1]))
            /\ status' = status
    /\ UNCHANGED <<overflowChecks, columns, code, sessionVars>>

\* Op::FilterEq
StepFilterEq ==
    /\ Fetching
    /\ Fetched.op = "FilterEq"
    /\ ip' = ip + 1
    /\ LET s == PopScalar(stack) IN
       IF ~IsOk(s.res)
       THEN status' = Ending(s.res) /\ stack' = s.stack
       ELSE LET cl == PopColumn(s.stack) IN
            IF ~IsOk(cl.res)
            THEN status' = Ending(cl.res) /\ stack' = cl.stack
            ELSE LET r == ColumnFilter(cl.res.val.col, s.res.val) IN
                 IF ~IsOk(r)
                 THEN status' = Ending(r) /\ stack' = cl.stack
                 ELSE /\ stack' = Append(cl.stack, ColumnRef(NewRc, r.val))
                      /\ status' = status
    /\ UNCHANGED <<overflowChecks, columns, code, sessionVars>>

\* Op::Select
StepSelect ==
    /\ Fetching
    /\ Fetched.op = "Select"
    /\ ip' = ip + 1
    /\ LET d == PopColumn(stack) IN
       IF ~IsOk(d.res)
       THEN status' = Ending(d.res) /\ stack' = d.stack
       ELSE LET sl == PopColumn(d.stack) IN
            IF ~IsOk(sl.res)
            THEN status' = Ending(sl.res) /\ stack' = sl.stack
            ELSE LET b == ExpectColBool(sl.res.val,
                                        sl.stack \o <<d.res.val, sl.res.val>>) IN
                 IF ~IsOk(b)
                 THEN status' = Ending(b) /\ stack' = sl.stack
                 ELSE LET r == ColumnSelect(d.res.val.col, b.val, overflowChecks) IN
                      IF ~IsOk(r)
                      THEN status' = Ending(r) /\ stack' = sl.stack
                      ELSE /\ stack' = Append(sl.stack, ColumnRef(NewRc, r.val))
                           /\ status' = status
    /\ UNCHANGED <<overflowChecks, columns, code, sessionVars>>

\* the catch-all arm: Op::AddVs, Op::DivVs
StepIllegal ==
    /\ Fetching
    /\ Fetched.op \notin {"Lit", "Col", "FilterEq", "Select"}
    /\ ip' = ip + 1
    /\ status' = "IllegalOpcode"
    /\ UNCHANGED <<overflowChecks, columns, code, stack, sessionVars>>

\* the while condition fails: run returns Ok(())
RunReturn ==
    /\ status = "running"
    /\ ~(ip < Len(code))
    /\ status' = "Ok"
    /\ UNCHANGED <<overflowChecks, columns, code, ip, stack, sessionVars>>

\* the column session is parked while the VM runs
SessionParked ==
    /\ orig = NumColumn(<<>>)
    /\ col = Ok(orig)
    /\ mask = ForColLen(0)
    /\ maskLen = 0
    /\ members = {}
    /\ inverted = FALSE
    /\ applied = <<>>

Init ==
    /\ overflowChecks \in BOOLEAN
    /\ \E t \in DOMAIN Tables : columns = Tables[t]
    /\ code = <<>>
    /\ ip = 0
    /\ stack = <<>>
    /\ status = "idle"
    /\ SessionParked

Next ==
    \/ \E prog \in Programs : Run(prog)
    \/ StepLit
    \/ StepCol
    \/ StepFilterEq
    \/ StepSelect
    \/ StepIllegal
    \/ RunReturn

Spec == Init /\ [][Next]_vars

\* A call of run on a VM, new or used: run is a &mut self method, so it can be
\* called again once an earlier call has returned (not after a panic).  It
\* assigns self.code and nothing else before the loop.
Call(prog) ==
    /\ status \in {"idle", "Ok", "TypeError", "IllegalOpcode"}
    /\ code' = prog
    /\ status' = "running"
    /\ UNCHANGED <<overflowChecks, columns, ip, stack, sessionVars>>

NextRerun ==
    \/ \E prog \in Programs : Call(prog)
    \/ StepLit
    \/ StepCol
    \/ StepFilterEq
    \/ StepSelect
    \/ StepIllegal
    \/ RunReturn

SpecRerun == Init /\ [][NextRerun]_vars

-----------------------------------------------------------------------------
(* The column session: the calls a user of column.rs and bitindex makes on   *)
(* one column -- create an index, set positions, invert it, select with it. *)

\* a RowId column one row longer than a word: row i holds 1000 + i
LongEntities == EntityColumn([i \in 1 .. (WordBits + 1) |-> 999 + i])

TestColumns ==
    << NumColumn(<<18, 42, 34, 20>>),
       StrColumn(<<alice, bob, carol, dave>>),
       LongEntities,
       FromStrs(<<a, bb, c>>),
       BoolColumn(<<{0, 2}>>) >>

\* the lengths an index is created for, and the positions set in one
MaskLens == {2, 3, 4, WordBits, WordBits + 1}
Positions == {0, 1, 2, 3, WordBits - 1, WordBits}

MaxSelects == 2

SessionOpen == IsOk(col) /\ Len(applied) < MaxSelects

\* BitIndex::for_col_len(n)
ForColLenCall(n) ==
    /\ SessionOpen
    /\ mask' = ForColLen(n)
    /\ maskLen' = n
    /\ members' = {}
    /\ inverted' = FALSE
    /\ <<mask', maskLen'>> # <<mask, maskLen>> \/ members # {} \/ inverted
    /\ UNCHANGED <<overflowChecks, vmVars, col, orig, applied>>

\* BitIndex::set(p), at a position of the length the index was created for
SetCall(p) ==
    /\ SessionOpen
    /\ p < maskLen
    /\ IsOk(BitSet(mask, p))
    /\ mask' = BitSet(mask, p).val
    /\ mask' # mask
    /\ members' = members \cup {p}
    /\ UNCHANGED <<overflowChecks, vmVars, col, orig, maskLen, inverted, applied>>

\* BitIndex::inverted: the complement of members in [0, maskLen) is asked for
InvertedCall ==
    /\ SessionOpen
    /\ mask' = Inverted(mask)
    /\ members' = (0 .. (maskLen - 1)) \ members
    /\ inverted' = ~inverted
    /\ UNCHANGED <<overflowChecks, vmVars, col, orig, maskLen, applied>>

\* <Column as ColumnT>::select(&BoolColumn { data: mask })
SelectCall ==
    /\ SessionOpen
    /\ col' = ColumnSelect(col.val, BoolColumn(mask), overflowChecks)
    /\ applied' = Append(applied, BitMembers(mask))
    /\ UNCHANGED <<overflowChecks, vmVars, orig, mask, maskLen, members, inverted>>

\* the VM is not constructed during a column session
VmParked ==
    /\ columns = <<>>
    /\ code = <<>>
    /\ ip = 0
    /\ stack = <<>>
    /\ status = "idle"

InitColumn ==
    /\ overflowChecks \in BOOLEAN
    /\ VmParked
    /\ \E t \in DOMAIN TestColumns : orig = TestColumns[t]
    /\ col = Ok(orig)
    /\ \E n \in MaskLens : maskLen = n
    /\ mask = ForColLen(maskLen)
    /\ members = {}
    /\ inverted = FALSE
    /\ applied = <<>>

NextColumn ==
    \/ \E n \in MaskLens : ForColLenCall(n)
    \/ \E p \in Positions : SetCall(p)
    \/ InvertedCall
    \/ SelectCall

SpecColumn == InitColumn /\ [][NextColumn]_vars

-----------------------------------------------------------------------------
(* Vocabulary of the properties *)

\* the elements of a finite set of numbers, ascending
SortedSeq(S) ==
    [k \in 1 .. Cardinality(S) |->
        CHOOSE x \in S : Cardinality({y \in S : y < x}) = k - 1]

\* equality of columns: of the same representation, and then of the same data
SameColumn(x, y) == x.tag = y.tag /\ x = y

SameTable(t, u) ==
    Len(t) = Len(u) /\ \A i \in DOMAIN t : SameColumn(t[i], u[i])

\* row i (from 0) of an InlineText column
InlineRow(cl, i) == Slice(cl.data, cl.offsets[i + 1], cl.offsets[i + 2])

\* a sequence of n elements, none equal to its position
Elements(n) == [i \in 1 .. n |-> 999 + i]

\* the index of length n with exactly the positions of S set
IndexOf(n, S) ==
    [b \in 1 .. ((n \div WordBits) + 1) |->
        {p % WordBits : p \in {q \in S : q \div WordBits = b - 1}}]

\* run has returned or the process has panicked
Ended == status \notin {"idle", "running"}

\* the instruction about to execute is Select with two columns on top of the stack
SelectOnColumns ==
    /\ Fetching
    /\ Fetched.op = "Select"
    /\ Len(stack) >= 2
    /\ Top(stack).tag = "ColumnRef"
    /\ Top(Pop(stack)).tag = "ColumnRef"

Data == Top(stack)
Beneath == Top(Pop(stack))

-----------------------------------------------------------------------------
(* C1: the program of test_vm, run on a new VM over the table of test_vm,    *)
(* ends without error and leaves exactly one value on the stack, a Text     *)
(* column equal to ["alice","carol"].                                       *)
C1_EndToEnd ==
    (SameTable(columns, Persons) /\ code = TestVmCode /\ Ended)
        => /\ status = "Ok"
           /\ Len(stack) = 1
           /\ stack[1].tag = "ColumnRef"
           /\ SameColumn(stack[1].col, StrColumn(<<alice, carol>>))

C1_Witness ==
    /\ SameTable(columns, Persons)
    /\ code = TestVmCode
    /\ status = "Ok"
    /\ ip = Len(TestVmCode)
    /\ Len(stack) = 1
    /\ SameColumn(stack[1].col, StrColumn(<<alice, carol>>))

(* C2: whenever Select executes with a column on top and a column that is   *)
(* not a Bool column beneath it, run returns a TypeError and does not       *)
(* crash, whether the column beneath was pushed by Col or made by Select.   *)
C2_SelectNonBoolIsTypeError ==
    [][(SelectOnColumns /\ Beneath.col.tag # "Bool") => status' = "TypeError"]_vars

(* C3: Col(i) with i not a slot of the table makes run return an            *)
(* IndexError; it pushes nothing and does not crash.                        *)
C3_ColOutOfRangeIsIndexError ==
    [][(Fetching /\ Fetched.op = "Col" /\ Fetched.arg >= Len(columns))
         => (status' = "IndexError" /\ stack' = stack)]_vars

(* C4: for a Num, Text, RowId or InlineText column and a mask with a member *)
(* at or past the column's length, select returns an IndexError and does    *)
(* not crash.  (Stated for a mask that was created and set, for a length    *)
(* that may be greater than the column's.)                                  *)
C4_SelectPastEndIsIndexError ==
    [][(/\ SessionOpen
        /\ applied' # applied
        /\ col.val.tag # "Bool"
        /\ ~inverted
        /\ \E p \in BitMembers(mask) : p >= Rows(col.val))
         => (col'.kind = "Err" /\ col'.err = "IndexError")]_vars

(* C5: for an InlineText column and a mask whose members are all below its  *)
(* length, select returns the InlineText column built from the selected     *)
(* strings alone, in ascending member order; the column built from          *)
(* ["a","bb","c"] has offsets [0,1,3,4], filtering it by "bb" gives the     *)
(* mask with exactly position 1 set, and selecting that mask gives the      *)
(* column built from ["bb"].                                                *)
C5_InlineSelectIsFromStrs ==
    [][(/\ SessionOpen
        /\ applied' # applied
        /\ col.val.tag = "InlineStr"
        /\ \A p \in BitMembers(mask) : p < Rows(col.val))
         => /\ FromStrs(<<a, bb, c>>).offsets = <<0, 1, 3, 4>>
            /\ LET asked == ColumnFilter(FromStrs(<<a, bb, c>>), ScalarStr(bb))
               IN  IsOk(asked) /\ BitMembers(asked.val.data) = {1}
            /\ IsOk(col')
            /\ LET picked == SortedSeq(BitMembers(mask))
                   built == FromStrs([k \in DOMAIN picked |->
                                        InlineRow(col.val, picked[k])])
               IN  /\ SameColumn(col'.val, built)
                   /\ col'.val.offsets[1] = 0
                   /\ col'.val.offsets[Len(col'.val.offsets)] = Len(col'.val.data)]_vars

(* C6: when Select executes with a Bool column beneath the data column, and *)
(* the table also references that Bool column, the selection is computed    *)
(* and pushed: sharing makes Select neither fail nor crash.  (Stated where  *)
(* the selection itself is defined.)                                        *)
C6_SharedMaskNarrows ==
    [][(/\ SelectOnColumns
        /\ Beneath.col.tag = "Bool"
        /\ Beneath.rc.table
        /\ IsOk(ColumnSelect(Data.col, Beneath.col, overflowChecks)))
         => /\ status' = "running"
            /\ Len(stack') = Len(stack) - 1
            /\ Top(stack').tag = "ColumnRef"
            /\ SameColumn(Top(stack').col,
                          ColumnSelect(Data.col, Beneath.col, overflowChecks).val)]_vars

(* C7: an index created for length n in which exactly the positions of S    *)
(* were set gathers, from a sequence of n elements, the elements at the     *)
(* positions of S, each once, in ascending order, and for_each reports the  *)
(* same positions in the same order -- across words, and with the highest   *)
(* bit of a word a member.                                                  *)
C7_GatherIsAscendingMembers ==
    ~inverted =>
        LET picked == SortedSeq(members)
            gathered == BitSelect(mask, Elements(maskLen), overflowChecks)
            reported == ForEach(mask, overflowChecks, WordBits * Len(mask))
        IN  /\ IsOk(gathered)
            /\ gathered.val = [k \in DOMAIN picked |-> Elements(maskLen)[picked[k] + 1]]
            /\ IsOk(reported)
            /\ reported.val = picked

(* C8: the complement of an index of logical length n has as members        *)
(* exactly the positions of [0, n) that are not members of the original,    *)
(* and none at a position >= n.                                             *)
C8_ComplementStaysBelowLength ==
    inverted =>
        /\ BitMembers(mask) = members
        /\ \A p \in BitMembers(mask) : p < maskLen

(* C9: gather composition.  After select(mask1) and then select(mask2) on a *)
(* column, with the members of mask1 below the column's length and those of *)
(* mask2 below the number of members of mask1, the result is the column     *)
(* select(compose(mask1, mask2)) gives, where compose has the j-th smallest *)
(* member of mask1 for each member j of mask2.                              *)
C9_GatherComposition ==
    (/\ Len(applied) = 2
     /\ orig.tag # "Bool"
     /\ \A p \in applied[1] : p < Rows(orig)
     /\ \A j \in applied[2] : j < Cardinality(applied[1]))
        => LET first == SortedSeq(applied[1])
               compose == IndexOf(Rows(orig), {first[j + 1] : j \in applied[2]})
               direct == ColumnSelect(orig, BoolColumn(compose), overflowChecks)
           IN  /\ IsOk(col)
               /\ IsOk(direct)
               /\ SameColumn(col.val, direct.val)

(* C10: when Select executes with a Bool data column over a Bool mask, it   *)
(* pushes a new Bool column or run returns an error; it does not crash.     *)
(* (Stated for a mask no other slot references, as FilterEq makes them.)    *)
C10_BoolSelectDoesNotCrash ==
    [][(/\ SelectOnColumns
        /\ Data.col.tag = "Bool"
        /\ Beneath.col.tag = "Bool"
        /\ ~Beneath.rc.table)
         => \/ status' = "running" /\ Top(stack').col.tag = "Bool"
            \/ status' \notin {"running", "Panic"}]_vars

(* C11: every call of run fetches the instructions of its code in order,     *)
(* starting with the first and advancing the pointer by one per step, until *)
(* the pointer passes the end or an instruction fails; once the call has    *)
(* ended no later instruction executes.  This holds for a call on a new VM  *)
(* and for a call on a VM that completed or failed an earlier run.  (How a  *)
(* failing instruction ends the call, by a returned error or by a panic, is *)
(* the subject of C2..C6 and C10 and is left open here.)                    *)
C11_FetchInOrder ==
    [][/\ (status # "running" /\ status' = "running" /\ code' # <<>>) => ip' = 0
       /\ Fetching => (ip' = ip + 1 /\ code' = code)
       /\ (status = "running" /\ status' = "Ok") => ip = Len(code)
       /\ (status # "running" /\ status' # "running")
            => (ip' = ip /\ stack' = stack)]_vars

=============================================================================
